---- MODULE Spec2Model ----
(***************************************************************************)
(* md-toc-generator.py: numbers the chapters of a markdown file and        *)
(* replaces every [TOC] mark by a generated table of content.              *)
(*                                                                         *)
(* A Python str is a sequence of symbols.  A symbol is one character,      *)
(* except that the three marks of the program ([TOC], $%TOC_BEGIN$,        *)
(* $%TOC_END$) are one symbol each: the modelled inputs hold the           *)
(* characters '[', ']', '$' and '%' only inside these marks, and the       *)
(* program never writes a mark's characters apart from the whole mark      *)
(* (every generated list item opens with "[" followed by a digit).         *)
(***************************************************************************)
EXTENDS Integers, Sequences, FiniteSets, TLC

(***************************************************************************)
(* Bounds of the model.                                                    *)
(***************************************************************************)
\* longest document (in lines) built from every kind of line
MaxLines == 3
\* longest document (in lines) built from header and text lines only
MaxOutline == 5
\* how many times in a row the program is run on the same file
MaxRuns == 2
\* longest chapter title handed to chapter_name_to_md_item on its own
MaxNameLen == 3

(***************************************************************************)
(* Module constants, lines 20-35.                                          *)
(***************************************************************************)
TOC_CHAPTER_NAME ==
    <<"T", "a", "b", "l", "e", " ", "o", "f", " ", "c", "o", "n", "t", "e", "n", "t">>
TOC_BEGIN == <<"$%TOC_BEGIN$">>
TOC_END == <<"$%TOC_END$">>
TOC_MARK == <<"[TOC]">>
\* default of the parameter min_toc_level of get_chapter_names
min_toc_level == 2
\* the value of re.MULTILINE, which line 185 hands to sub() as its count
RE_MULTILINE == 8

NL == "\n"
Digits == <<"0", "1", "2", "3", "4", "5", "6", "7", "8", "9">>
UpperCase ==
    <<"A", "B", "C", "D", "E", "F", "G", "H", "I", "J", "K", "L", "M",
      "N", "O", "P", "Q", "R", "S", "T", "U", "V", "W", "X", "Y", "Z">>
LowerCase ==
    <<"a", "b", "c", "d", "e", "f", "g", "h", "i", "j", "k", "l", "m",
      "n", "o", "p", "q", "r", "s", "t", "u", "v", "w", "x", "y", "z">>

Range(s) == {s[i] : i \in DOMAIN s}

\* \s of the re module, on the characters of the model
IsSpace(c) == c \in {" ", "\t"}
\* \d of the re module
IsDigit(c) == c \in Range(Digits)
IsLetter(c) == c \in Range(UpperCase) \cup Range(LowerCase)

Min(S) == CHOOSE x \in S : \A y \in S : x <= y
Max(S) == CHOOSE x \in S : \A y \in S : x >= y

(***************************************************************************)
(* str methods.                                                            *)
(***************************************************************************)
\* the tail of s from its (1-based) position i on
From(s, i) == SubSeq(s, i, Len(s))

\* whether sub occurs in s at position i
OccursAt(s, sub, i) ==
    /\ i >= 1
    /\ i + Len(sub) - 1 <= Len(s)
    /\ SubSeq(s, i, i + Len(sub) - 1) = sub

\* the positions at which sub occurs in s
Occurrences(s, sub) == {i \in 1..Len(s) : OccursAt(s, sub, i)}

\* str.split(sep) for a one-character sep: the parts between the separators,
\* Cut(k) being the position of the k-th one
split(s, sep) ==
    LET seps == {i \in 1..Len(s) : s[i] = sep}
        n == Cardinality(seps)
        Cut(k) ==
            IF k = 0 THEN 0
            ELSE IF k = n + 1 THEN Len(s) + 1
            ELSE CHOOSE i \in seps : Cardinality({j \in seps : j < i}) = k - 1
    IN  [k \in 1..(n + 1) |-> SubSeq(s, Cut(k - 1) + 1, Cut(k) - 1)]

\* sep.join(parts)
RECURSIVE join(_, _)
join(sep, parts) ==
    IF parts = <<>> THEN <<>>
    ELSE IF Len(parts) = 1 THEN parts[1]
    ELSE parts[1] \o sep \o join(sep, Tail(parts))

\* str.replace(old, new) for a one-character old and a new of no or one
\* character
replace(s, old, new) ==
    IF new = <<>> THEN SelectSeq(s, LAMBDA c : c # old)
    ELSE [i \in 1..Len(s) |-> IF s[i] = old THEN new[1] ELSE s[i]]

\* str.count(c) for a one-character c
str_count(s, c) == Cardinality({i \in 1..Len(s) : s[i] = c})

\* the lower-case form of one symbol; a mark is lowered letter by letter
lower_char(c) ==
    IF c \in Range(UpperCase)
    THEN LowerCase[CHOOSE i \in 1..26 : UpperCase[i] = c]
    ELSE IF c = "[TOC]" THEN "[toc]"
    ELSE IF c = "$%TOC_BEGIN$" THEN "$%toc_begin$"
    ELSE IF c = "$%TOC_END$" THEN "$%toc_end$"
    ELSE c

\* str.lower()
lower(s) == [i \in 1..Len(s) |-> lower_char(s[i])]

\* str(n) for n >= 0
RECURSIVE str(_)
str(n) == IF n < 10 THEN <<Digits[n + 1]>> ELSE str(n \div 10) \o <<Digits[(n % 10) + 1]>>

\* s * n
RECURSIVE repeat(_, _)
repeat(s, n) == IF n <= 0 THEN <<>> ELSE s \o repeat(s, n - 1)

(***************************************************************************)
(* The regular expressions, lines 28-35.                                   *)
(***************************************************************************)
IsHash(c) == c = "#"
IsNumberChar(c) == c = "." \/ IsDigit(c)

\* the lengths of the longest prefixes of s made of '#', of whitespace, and of
\* dots and digits: what the greedy #+, \s+ and [.\d]+ take
LeadingHashes(s) == Max({n \in 0..Len(s) : \A i \in 1..n : IsHash(s[i])})
LeadingSpaces(s) == Max({n \in 0..Len(s) : \A i \in 1..n : IsSpace(s[i])})
LeadingNumber(s) == Max({n \in 0..Len(s) : \A i \in 1..n : IsNumberChar(s[i])})

\* RE_HEADER = ^(#+)\s+(.*)\s*$ matched against one line (a line holds no
\* newline).  (#+) and \s+ are greedy and no shorter choice of either can
\* match, (.*) takes all the rest, trailing whitespace included.
RE_HEADER(line) ==
    LET hashes == LeadingHashes(line)
        rest == From(line, hashes + 1)
        spaces == LeadingSpaces(rest)
    IN  [matched |-> hashes >= 1 /\ spaces >= 1,
         group1 |-> SubSeq(line, 1, hashes),
         group2 |-> From(rest, spaces + 1)]

\* RE_NUMBERED_HEADER_NAME = ^([.\d]+)\s+(.*)$ matched against a name
RE_NUMBERED_HEADER_NAME(name) ==
    LET number == LeadingNumber(name)
        rest == From(name, number + 1)
        spaces == LeadingSpaces(rest)
    IN  [matched |-> number >= 1 /\ spaces >= 1,
         group1 |-> SubSeq(name, 1, number),
         group2 |-> From(rest, spaces + 1)]

\* RE_TOC_FINISHED.sub(TOC_MARK, content), line 172.  (?:\n|.)* is greedy: the
\* one match runs from the first TOC_BEGIN to the last TOC_END after it, and no
\* TOC_END is left for a second match.
RE_TOC_FINISHED_sub(content) ==
    LET begins == Occurrences(content, TOC_BEGIN)
        first == Min(begins)
        ends == {e \in Occurrences(content, TOC_END) : e >= first + Len(TOC_BEGIN)}
        last == Max(ends)
    IN  IF begins = {} \/ ends = {} THEN content
        ELSE SubSeq(content, 1, first - 1) \o TOC_MARK
                 \o From(content, last + Len(TOC_END))

\* The replacement template of re.sub, read from left to right: a backslash
\* that is not itself escaped and the character after it form an escape.  \\ is
\* one backslash, \n \t \r \f \a \b \v are control characters, any other letter
\* and any digit raises re.error (a bad escape, or a reference to a group that
\* RE_TOC_INIT does not have), as does a backslash that ends the template; any
\* other escape is kept as it is.  (\0, three-digit octal escapes and \g<0> are
\* in no modelled input.)
ControlEscapes == {"n", "t", "r", "f", "a", "b", "v"}
control_char(c) ==
    CASE c = "n" -> NL
      [] c = "t" -> "\t"
      [] c = "r" -> "\r"
      [] c = "f" -> "\f"
      [] c = "a" -> "BEL"
      [] c = "b" -> "BS"
      [] c = "v" -> "VT"

\* how many backslashes stand in a row right before position i of t
BackslashesBefore(t, i) ==
    Max({n \in 0..(i - 1) : \A k \in 1..n : t[i - k] = "\\"})

\* position i of t is a backslash that opens an escape
OpensEscape(t, i) == t[i] = "\\" /\ BackslashesBefore(t, i) % 2 = 0

parse_template(t) ==
    LET Escaped(i) == i > 1 /\ OpensEscape(t, i - 1)
        Bad(i) ==
            /\ OpensEscape(t, i)
            /\ \/ i = Len(t)
               \/ /\ t[i + 1] \notin ControlEscapes
                  /\ IsLetter(t[i + 1]) \/ IsDigit(t[i + 1])
        \* what position i gives to the text: "" stands for nothing
        Out(i) ==
            IF OpensEscape(t, i)
            THEN IF t[i + 1] = "\\" \/ t[i + 1] \in ControlEscapes THEN "" ELSE "\\"
            ELSE IF Escaped(i) /\ t[i] \in ControlEscapes THEN control_char(t[i])
            ELSE t[i]
        raised == \E i \in 1..Len(t) : Bad(i)
    IN  [raised |-> raised,
         text |-> IF raised THEN <<>>
                  ELSE SelectSeq([i \in 1..Len(t) |-> Out(i)], LAMBDA c : c # "")]

\* the leftmost n occurrences of TOC_MARK in string replaced by repl
RECURSIVE replace_marks(_, _, _)
replace_marks(string, repl, n) ==
    LET marks == Occurrences(string, TOC_MARK)
        first == Min(marks)
    IN  IF n = 0 \/ marks = {} THEN string
        ELSE SubSeq(string, 1, first - 1) \o repl
                 \o replace_marks(From(string, first + Len(TOC_MARK)), repl, n - 1)

\* RE_TOC_INIT.sub(repl, string, count), line 185: the third positional
\* parameter of sub() is count, the most occurrences it replaces
RE_TOC_INIT_sub(repl, string, count) ==
    LET template == parse_template(repl)
    IN  [raised |-> template.raised,
         text |-> IF template.raised THEN <<>>
                  ELSE replace_marks(string, template.text, count)]

(***************************************************************************)
(* get_new_chapter_name, lines 56-64.                                      *)
(***************************************************************************)
\* sorted(keys)
RECURSIVE sorted(_)
sorted(keys) ==
    IF keys = {} THEN <<>> ELSE <<Min(keys)>> \o sorted(keys \ {Min(keys)})

\* a strip_number that keeps the number
strip_number_kept(current_name) == current_name

\* RE_NUMBERED_HEADER_NAME.sub(r"\2", current_name), line 63
strip_number(current_name) ==
    LET m == RE_NUMBERED_HEADER_NAME(current_name)
    IN  IF m.matched THEN m.group2 ELSE current_name

\* '.'.join([str(indexes[x]) for x in sorted(indexes.keys())])
dotted_index(indexes) ==
    LET keys == sorted(DOMAIN indexes)
    IN  join(<<".">>, [i \in 1..Len(keys) |-> str(indexes[keys[i]])])

get_new_chapter_name(current_name, indexes) ==
    dotted_index(indexes) \o <<" ">> \o strip_number(current_name)

(***************************************************************************)
(* chapter_name_to_md_item, lines 141-156.                                 *)
(***************************************************************************)
\* line 147 raises StopIteration on a name that carries no number
chapter_name_to_md_item_raises(chapter_name) ==
    ~RE_NUMBERED_HEADER_NAME(chapter_name).matched

\* a chapter_link that turns the spaces into hyphens first
chapter_link_spaces_first(chapter_name) ==
    lower(replace(replace(replace(replace(replace(replace(
        chapter_name, " ", <<"-">>), ".", <<>>), "/", <<>>), "#", <<>>), "-", <<>>),
        "&", <<>>))

\* lines 148-155
chapter_link(chapter_name) ==
    lower(replace(replace(replace(replace(replace(replace(
        chapter_name, ".", <<>>), "/", <<>>), "#", <<>>), "-", <<>>), "&", <<>>),
        " ", <<"-">>))

\* a chapter_name_to_md_item that indents nothing
chapter_name_to_md_item_flat(chapter_name) ==
    <<"-", " ", "[">> \o chapter_name
        \o <<"]", "(", "#">> \o chapter_link(chapter_name) \o <<")">>

chapter_name_to_md_item(chapter_name) ==
    LET chapter_level == str_count(RE_NUMBERED_HEADER_NAME(chapter_name).group1, ".")
    IN  repeat(<<" ", " ">>, chapter_level) \o <<"-", " ", "[">> \o chapter_name
            \o <<"]", "(", "#">> \o chapter_link(chapter_name) \o <<")">>

(***************************************************************************)
(* The state: the command line and the file, the position in main and      *)
(* generate_file_toc, their locals, and the calls of get_chapter_names.    *)
(***************************************************************************)
VARIABLES
    argv,               \* sys.argv
    is_file,            \* Path(argv[1]).is_file()
    disk,               \* the content of the file argv[1] names
    pc,                 \* where the process is
    run,                \* which run on this file this is (1 = the first)
    status,             \* what main returned (-1: nothing yet)
    toc_chapter_name,   \* generate_file_toc: the parameter
    content,            \* generate_file_toc: content
    content_lines,      \* generate_file_toc: content_lines
    new_content_lines,  \* generate_file_toc: new_content_lines, the output buffer
    chapter_names,      \* generate_file_toc: chapter_names
    toc_content,        \* generate_file_toc: toc_content
    new_content,        \* generate_file_toc: new_content
    chapter_indexes,    \* get_chapter_names: the dict all its calls share
    stack,              \* get_chapter_names: the frames of its nested calls
    stdout,             \* what was printed
    opened,             \* the modes the file was opened in, in order
    history             \* the content of the file at the start of each run so far

vars ==
    <<argv, is_file, disk, pc, run, status, toc_chapter_name, content, content_lines,
      new_content_lines, chapter_names, toc_content, new_content, chapter_indexes,
      stack, stdout, opened, history>>

(***************************************************************************)
(* The inputs: documents made of a few kinds of line.                      *)
(***************************************************************************)
Hashes(level) == repeat(<<"#">>, level)
TextLine == <<"x">>
HeaderLine(level) == Hashes(level) \o <<" ", "x">>
\* a header that already carries a number, and not the one it will get
StaleHeaderLine == <<"#", "#", " ", "7", ".", "1", " ", "x">>
\* a header whose name holds a backslash
BackslashHeaderLine == <<"#", "#", " ", "\\", "x">>
MarkLine == TOC_MARK
ThreeMarksLine == TOC_MARK \o TOC_MARK \o TOC_MARK

OutlineKinds == {HeaderLine(2), HeaderLine(3), HeaderLine(4)}
LineKinds ==
    {TextLine, HeaderLine(1), HeaderLine(2), HeaderLine(3), StaleHeaderLine,
     BackslashHeaderLine, MarkLine, ThreeMarksLine}
TitleLineKinds == {TextLine, HeaderLine(2), MarkLine}
\* titles given on the command line: a plain one, one with a backslash
UserTitles == {<<"X">>, <<"\\", "x">>}

SeqsUpTo(S, n) == UNION {[1..k -> S] : k \in 0..n}
Document(lines) == join(<<NL>>, lines)

Prog == "md-toc-generator.py"
Path == "doc.md"
\* an existing file the process is not allowed to read: open('r') raises
\* PermissionError
Locked == "locked.md"

Invocations ==
    {[argv |-> <<Prog, Path>>, is_file |-> TRUE, disk |-> Document(d)] :
        d \in SeqsUpTo(LineKinds, MaxLines) \cup SeqsUpTo(OutlineKinds, MaxOutline)}
    \cup {[argv |-> <<Prog, Path, t>>, is_file |-> TRUE, disk |-> Document(d)] :
        d \in SeqsUpTo(TitleLineKinds, MaxLines), t \in UserTitles}
    \cup {[argv |-> a, is_file |-> f, disk |-> Document(d)] :
        a \in {<<Prog>>, <<Prog, Path>>, <<Prog, Path, <<"X">>>>},
        f \in BOOLEAN, d \in SeqsUpTo(TitleLineKinds, 1)}
    \cup {[argv |-> <<Prog, Locked>>, is_file |-> TRUE, disk |-> Document(d)] :
        d \in SeqsUpTo(TitleLineKinds, 1)}

\* the locals of a process that has not run yet
Fresh ==
    /\ pc = "main"
    /\ status = -1
    /\ toc_chapter_name = <<>>
    /\ content = <<>>
    /\ content_lines = <<>>
    /\ new_content_lines = <<>>
    /\ chapter_names = <<>>
    /\ toc_content = <<>>
    /\ new_content = <<>>
    /\ chapter_indexes = <<>>
    /\ stack = <<>>
    /\ stdout = <<>>
    /\ opened = <<>>

Init ==
    /\ \E inv \in Invocations :
        /\ argv = inv.argv
        /\ is_file = inv.is_file
        /\ disk = inv.disk
    /\ run = 1
    /\ history = <<disk>>
    /\ Fresh

(***************************************************************************)
(* main, lines 191-205, up to the call of generate_file_toc.               *)
(***************************************************************************)
Usage == <<"usage", argv[1]>>

main ==
    /\ pc = "main"
    /\ IF Len(argv) < 2 \/ ~is_file
       THEN /\ stdout' = Append(stdout, Usage)
            /\ status' = 1
            /\ pc' = "exit"
            /\ UNCHANGED toc_chapter_name
       ELSE /\ toc_chapter_name' = IF Len(argv) >= 3 THEN argv[3] ELSE TOC_CHAPTER_NAME
            /\ pc' = "read"
            /\ UNCHANGED <<stdout, status>>
    /\ UNCHANGED <<argv, is_file, disk, run, content, content_lines, new_content_lines,
                   chapter_names, toc_content, new_content, chapter_indexes, stack,
                   opened, history>>

(***************************************************************************)
(* generate_file_toc, lines 159-188.                                       *)
(***************************************************************************)
\* lines 169-170: the file is opened for reading and read whole; open raises
\* OSError on a file that cannot be opened, and the exception ends the process
ReadFile ==
    /\ pc = "read"
    /\ IF argv[2] = Locked
       THEN /\ pc' = "raised"
            /\ status' = 1
            /\ UNCHANGED <<opened, content>>
       ELSE /\ opened' = Append(opened, "r")
            /\ content' = disk
            /\ pc' = "strip"
            /\ UNCHANGED status
    /\ UNCHANGED <<argv, is_file, disk, run, toc_chapter_name, content_lines,
                   new_content_lines, chapter_names, toc_content, new_content,
                   chapter_indexes, stack, stdout, history>>

\* a call of get_chapter_names, lines 87-91: its frame
Call(start_line_index, current_chapter_level) ==
    [start_line_index |-> start_line_index,
     i |-> 0,
     current_chapter_level |-> Max({min_toc_level, current_chapter_level}),
     chapter_names |-> <<>>,
     at |-> "for"]

\* lines 172-177: the generated TOC is put back to the mark, the content split
\* into lines, and get_chapter_names called on them
StripToc ==
    /\ pc = "strip"
    /\ content' = RE_TOC_FINISHED_sub(content)
    /\ content_lines' = split(content', NL)
    /\ new_content_lines' = <<>>
    /\ chapter_indexes' = (min_toc_level :> 0)
    /\ stack' = <<Call(0, 0)>>
    /\ pc' = "scan"
    /\ UNCHANGED <<argv, is_file, disk, run, status, toc_chapter_name, chapter_names,
                   toc_content, new_content, stdout, opened, history>>

(***************************************************************************)
(* get_chapter_names, lines 67-138.  Every call shares content_lines,      *)
(* chapter_indexes and new_content (here new_content_lines); its own       *)
(* start_line_index, i, current_chapter_level and chapter_names are in its *)
(* frame.                                                                  *)
(***************************************************************************)
Top == stack[Len(stack)]
SetTop(frame) == [stack EXCEPT ![Len(stack)] = frame]

\* the (0-based) index in content_lines of the line the loop of the innermost
\* call is at: skip_n drops the first start_line_index lines
LineIndex == Top.start_line_index + Top.i
Exhausted == LineIndex >= Len(content_lines)
Line == content_lines[LineIndex + 1]

\* a Qualifies that takes a header of any level
Qualifies_any_level(line) == RE_HEADER(line).matched

\* lines 94-99: the line is a header of a level the TOC takes
Qualifies(line) ==
    /\ RE_HEADER(line).matched
    /\ Len(RE_HEADER(line).group1) >= min_toc_level

\* a close_levels that drops nothing
close_levels_kept(indexes, level) == indexes

\* lines 102-103: the counters of the levels below the header are dropped
close_levels(indexes, level) ==
    [key \in {x \in DOMAIN indexes : x <= level} |-> indexes[key]]

\* an open_levels that opens a level with counter 1
RECURSIVE open_levels_at_one(_, _)
open_levels_at_one(indexes, level) ==
    LET key == Max(DOMAIN indexes)
    IN  IF key >= level THEN indexes
        ELSE open_levels_at_one(indexes @@ ((key + 1) :> 1), level)

\* lines 108-112: the levels up to the header's are opened with counter 0
RECURSIVE open_levels(_, _)
open_levels(indexes, level) ==
    LET key == Max(DOMAIN indexes)
    IN  IF key >= level THEN indexes
        ELSE open_levels(indexes @@ ((key + 1) :> 0), level)

\* an increment that counts the first header of a level only
increment_once(indexes, level) ==
    IF level \in DOMAIN indexes /\ indexes[level] >= 1
    THEN indexes
    ELSE indexes @@ (level :> 1)

\* line 114
increment(indexes, level) ==
    IF level \in DOMAIN indexes
    THEN [indexes EXCEPT ![level] = @ + 1]
    ELSE indexes @@ (level :> 1)

\* an update_indexes that opens no level but the header's own
update_indexes_unopened(indexes, level, current_chapter_level) ==
    increment(
        IF level < current_chapter_level THEN close_levels(indexes, level) ELSE indexes,
        level)

\* lines 101-114: chapter_indexes after a header of this level
update_indexes(indexes, level, current_chapter_level) ==
    increment(
        IF level < current_chapter_level THEN close_levels(indexes, level)
        ELSE IF level > current_chapter_level THEN open_levels(indexes, level)
        ELSE indexes,
        level)

\* lines 105-107
Warning(level, chapter_name, current_chapter_level) ==
    <<"WARN", level, chapter_name, current_chapter_level + 1>>

\* a PassLine that leaves the line out of the output
PassLine_dropped ==
    /\ pc = "scan"
    /\ Top.at = "for"
    /\ ~Exhausted
    /\ ~Qualifies(Line)
    /\ stack' = SetTop([Top EXCEPT !.i = @ + 1])
    /\ UNCHANGED <<argv, is_file, disk, pc, run, status, toc_chapter_name, content,
                   content_lines, new_content_lines, chapter_names, toc_content,
                   new_content, chapter_indexes, stdout, opened, history>>

\* lines 93-99 and 132-135: a line that is no header, or a header of a level
\* below min_toc_level, goes to the output as it is
PassLine ==
    /\ pc = "scan"
    /\ Top.at = "for"
    /\ ~Exhausted
    /\ ~Qualifies(Line)
    /\ new_content_lines' = Append(new_content_lines, Line)
    /\ stack' = SetTop([Top EXCEPT !.i = @ + 1])
    /\ UNCHANGED <<argv, is_file, disk, pc, run, status, toc_chapter_name, content,
                   content_lines, chapter_names, toc_content, new_content,
                   chapter_indexes, stdout, opened, history>>

\* sys.getrecursionlimit(): the frames the interpreter lets a thread stack
RecursionLimit == 1000
\* the frames under the outermost call of get_chapter_names (the module, main,
\* generate_file_toc) and over the innermost while it numbers a header
\* (get_new_chapter_name, its list comprehension)
FramesAround == 5
\* the frames the interpreter counts for itself: none, or as many as CPython
\* 3.11 does for a script run from the command line
InterpreterFrames == 0..3
\* what they can be where it matters: far from the limit any number of them
\* does as none
OwnFrames(depth) ==
    IF depth + FramesAround + Max(InterpreterFrames) > RecursionLimit
    THEN InterpreterFrames
    ELSE {0}

\* lines 95-131: a header is numbered, and the rest of the lines handed to a
\* nested call.  max() of line 109 raises ValueError on an empty dict; the
\* calls of line 115 raise RecursionError when the stack is full.
NumberChapter ==
    /\ pc = "scan"
    /\ Top.at = "for"
    /\ ~Exhausted
    /\ Qualifies(Line)
    /\ \E own \in OwnFrames(Len(stack)) :
       LET level == Len(RE_HEADER(Line).group1)
           chapter_name == RE_HEADER(Line).group2
           current == Top.current_chapter_level
       IN  IF \/ level > current /\ DOMAIN chapter_indexes = {}
              \/ Len(stack) + FramesAround + own > RecursionLimit
           THEN /\ pc' = "raised"
                /\ status' = 1
                /\ UNCHANGED <<chapter_indexes, stdout, new_content_lines, stack>>
           ELSE LET indexes == update_indexes(chapter_indexes, level, current)
                    new_chapter_name == get_new_chapter_name(chapter_name, indexes)
                IN  /\ chapter_indexes' = indexes
                    /\ stdout' = stdout
                           \o (IF level - current > 1
                               THEN <<Warning(level, chapter_name, current)>>
                               ELSE <<>>)
                           \o <<new_chapter_name>>
                    /\ new_content_lines' =
                           Append(new_content_lines,
                                  Hashes(level) \o <<" ">> \o new_chapter_name)
                    /\ stack' = Append(
                           SetTop([Top EXCEPT !.chapter_names = Append(@, new_chapter_name),
                                              !.at = "break"]),
                           Call(LineIndex + 1, level))
                    /\ UNCHANGED <<pc, status>>
    /\ UNCHANGED <<argv, is_file, disk, run, toc_chapter_name, content, content_lines,
                   chapter_names, toc_content, new_content, opened, history>>

\* a Deliver after which the caller goes on with its loop
Deliver_resumed(names) ==
    IF Len(stack) = 1
    THEN /\ chapter_names' = names
         /\ stack' = <<>>
         /\ pc' = "toc"
    ELSE /\ stack' = [SubSeq(stack, 1, Len(stack) - 1) EXCEPT
                         ![Len(stack) - 1].chapter_names = @ \o names,
                         ![Len(stack) - 1].at = "for"]
         /\ UNCHANGED <<chapter_names, pc>>

\* line 138: the innermost call returns its chapter_names; its caller extends
\* its own list by them (line 123) and is then at its break (lines 131, 136);
\* the outermost call returns to generate_file_toc (line 177)
Deliver(names) ==
    IF Len(stack) = 1
    THEN /\ chapter_names' = names
         /\ stack' = <<>>
         /\ pc' = "toc"
    ELSE /\ stack' = [SubSeq(stack, 1, Len(stack) - 1) EXCEPT
                         ![Len(stack) - 1].chapter_names = @ \o names]
         /\ UNCHANGED <<chapter_names, pc>>

\* the loop of line 93 ends with no line left
LoopEnd ==
    /\ pc = "scan"
    /\ Top.at = "for"
    /\ Exhausted
    /\ Deliver(Top.chapter_names)
    /\ UNCHANGED <<argv, is_file, disk, run, status, toc_chapter_name, content,
                   content_lines, new_content_lines, toc_content, new_content,
                   chapter_indexes, stdout, opened, history>>

\* the call that numbered a header returns once its nested call has
Return ==
    /\ pc = "scan"
    /\ Top.at = "break"
    /\ Deliver(Top.chapter_names)
    /\ UNCHANGED <<argv, is_file, disk, run, status, toc_chapter_name, content,
                   content_lines, new_content_lines, toc_content, new_content,
                   chapter_indexes, stdout, opened, history>>

(***************************************************************************)
(* generate_file_toc, lines 179-188, and the return of main.               *)
(***************************************************************************)
\* lines 179-182
toc(title, names) ==
    TOC_BEGIN \o <<NL, "#", "#", " ">> \o title \o <<NL>>
        \o join(<<NL>>, [k \in 1..Len(names) |-> chapter_name_to_md_item(names[k])])
        \o <<NL>> \o TOC_END

RenderToc ==
    /\ pc = "toc"
    /\ IF \E k \in 1..Len(chapter_names) : chapter_name_to_md_item_raises(chapter_names[k])
       THEN /\ pc' = "raised"
            /\ status' = 1
            /\ UNCHANGED toc_content
       ELSE /\ toc_content' = toc(toc_chapter_name, chapter_names)
            /\ pc' = "sub"
            /\ UNCHANGED status
    /\ UNCHANGED <<argv, is_file, disk, run, toc_chapter_name, content, content_lines,
                   new_content_lines, chapter_names, new_content, chapter_indexes,
                   stack, stdout, opened, history>>

\* a Substitute in a generate_file_toc that has opened the file for writing
\* before it substitutes
Substitute_file_open ==
    /\ pc = "sub"
    /\ LET result == RE_TOC_INIT_sub(toc_content, join(<<NL>>, new_content_lines),
                                     RE_MULTILINE)
       IN  IF result.raised
           THEN /\ pc' = "raised"
                /\ status' = 1
                /\ disk' = <<>>
                /\ opened' = Append(opened, "w")
                /\ UNCHANGED new_content
           ELSE /\ new_content' = result.text
                /\ pc' = "write"
                /\ UNCHANGED <<status, disk, opened>>
    /\ UNCHANGED <<argv, is_file, run, toc_chapter_name, content, content_lines,
                   new_content_lines, chapter_names, toc_content, chapter_indexes,
                   stack, stdout, history>>

\* lines 184-185: re.sub raises re.error on a bad template, and the exception
\* ends the process
Substitute ==
    /\ pc = "sub"
    /\ LET result == RE_TOC_INIT_sub(toc_content, join(<<NL>>, new_content_lines),
                                     RE_MULTILINE)
       IN  IF result.raised
           THEN /\ pc' = "raised"
                /\ status' = 1
                /\ UNCHANGED new_content
           ELSE /\ new_content' = result.text
                /\ pc' = "write"
                /\ UNCHANGED status
    /\ UNCHANGED <<argv, is_file, disk, run, toc_chapter_name, content, content_lines,
                   new_content_lines, chapter_names, toc_content, chapter_indexes,
                   stack, stdout, opened, history>>

\* lines 187-188 and 204-205: the file is opened for writing and overwritten,
\* and main returns 0
WriteFile ==
    /\ pc = "write"
    /\ opened' = Append(opened, "w")
    /\ disk' = new_content
    /\ status' = 0
    /\ pc' = "exit"
    /\ UNCHANGED <<argv, is_file, run, toc_chapter_name, content, content_lines,
                   new_content_lines, chapter_names, toc_content, new_content,
                   chapter_indexes, stack, stdout, history>>

\* the process has ended: main returned, or an exception left it
Ended == pc \in {"exit", "raised"}

\* the program is run again, with the same command line, on the file as the
\* last run left it
RunAgain ==
    /\ Ended
    /\ run < MaxRuns
    /\ run' = run + 1
    /\ history' = Append(history, disk)
    /\ pc' = "main"
    /\ status' = -1
    /\ toc_chapter_name' = <<>>
    /\ content' = <<>>
    /\ content_lines' = <<>>
    /\ new_content_lines' = <<>>
    /\ chapter_names' = <<>>
    /\ toc_content' = <<>>
    /\ new_content' = <<>>
    /\ chapter_indexes' = <<>>
    /\ stack' = <<>>
    /\ stdout' = <<>>
    /\ opened' = <<>>
    /\ UNCHANGED <<argv, is_file, disk>>

Next ==
    \/ main
    \/ ReadFile
    \/ StripToc
    \/ PassLine
    \/ NumberChapter
    \/ LoopEnd
    \/ Return
    \/ RenderToc
    \/ Substitute
    \/ WriteFile
    \/ RunAgain

Spec == Init /\ [][Next]_vars

(***************************************************************************)
(* What the claims speak of.                                               *)
(***************************************************************************)
\* get_chapter_names has returned to generate_file_toc in this run
Scanned == pc \in {"toc", "sub", "write", "exit", "raised"} /\ content_lines # <<>>

\* the (1-based) positions in lines of the headers the TOC takes, in order
QualifyingAt(lines) ==
    SelectSeq([i \in 1..Len(lines) |-> i], LAMBDA i : Qualifies(lines[i]))

\* the levels of these headers, in order
LevelOf(line) == Len(RE_HEADER(line).group1)
Levels(lines) ==
    LET at == QualifyingAt(lines)
    IN  [j \in 1..Len(at) |-> LevelOf(lines[at[j]])]

\* the number a numbered chapter name opens with
NumberOf(chapter_name) == RE_NUMBERED_HEADER_NAME(chapter_name).group1
Numbers(names) == [j \in 1..Len(names) |-> NumberOf(names[j])]

\* how many headers of level k the j-th header of levels closes a run of: the
\* headers of level k among the first j after which no header up to the j-th
\* is of a level above k's (a smaller number)
SeenSince(levels, j, k) ==
    Cardinality({i \in 1..j : levels[i] = k /\ \A m \in (i + 1)..j : levels[m] >= k})

\* the dotted index the j-th header is to get
Dotted(levels, j) ==
    join(<<".">>,
         [n \in 1..(levels[j] - min_toc_level + 1) |->
             str(SeenSince(levels, j, min_toc_level + n - 1))])

(***************************************************************************)
(* C1: running the program on the file a first run wrote leaves the file   *)
(* byte for byte as it was: at the end of every run after the first, the   *)
(* file is what it was at the start of that run.                           *)
(***************************************************************************)
C1_Idempotent == (Ended /\ run >= 2) => disk = history[run]

(***************************************************************************)
(* C2: the number of every numbered header is the '.'-join, over the       *)
(* levels min_toc_level..L, of how many headers of that level were seen    *)
(* since the last header of a shallower level; headers of levels           *)
(* 2,3,3,2,3 get 1, 1.1, 1.2, 2, 2.1.                                      *)
(***************************************************************************)
Example23323 == <<2, 3, 3, 2, 3>>
Numbers23323 ==
    <<<<"1">>, <<"1", ".", "1">>, <<"1", ".", "2">>, <<"2">>, <<"2", ".", "1">>>>

C2_Numbering ==
    Scanned =>
        LET levels == Levels(content_lines)
        IN  /\ Len(chapter_names) = Len(levels)
            /\ \A j \in 1..Len(levels) : NumberOf(chapter_names[j]) = Dotted(levels, j)
            /\ levels = Example23323 => Numbers(chapter_names) = Numbers23323

C2_Witness ==
    /\ pc = "toc"
    /\ Levels(content_lines) = Example23323
    /\ Numbers(chapter_names) = Numbers23323

(***************************************************************************)
(* C3: when a header is more than one level below the header before it,    *)
(* every level skipped has counter 0 in its number (levels 2 then 4 give   *)
(* 1 and 1.0.1), the warning is printed, get_chapter_names raises nothing, *)
(* and every header, the later ones too, is numbered.                      *)
(***************************************************************************)
\* an exception left get_chapter_names
NumberingRaised == pc = "raised" /\ stack # <<>>

\* the j-th header of levels skips a level
Skips(levels, j) == j >= 2 /\ levels[j] - levels[j - 1] > 1

C3_LevelSkip ==
    /\ ~NumberingRaised
    /\ Scanned =>
        LET at == QualifyingAt(content_lines)
            levels == Levels(content_lines)
        IN  /\ Len(chapter_names) = Len(levels)
            /\ \A j \in 1..Len(levels) : Skips(levels, j) =>
                LET components == split(NumberOf(chapter_names[j]), ".")
                IN  /\ Len(components) = levels[j] - min_toc_level + 1
                    /\ \A k \in (levels[j - 1] + 1)..(levels[j] - 1) :
                           components[k - min_toc_level + 1] = <<"0">>
                    /\ Warning(levels[j], RE_HEADER(content_lines[at[j]]).group2,
                               levels[j - 1]) \in Range(stdout)
            /\ (Len(levels) >= 2 /\ levels[1] = 2 /\ levels[2] = 4) =>
                /\ NumberOf(chapter_names[1]) = <<"1">>
                /\ NumberOf(chapter_names[2]) = <<"1", ".", "0", ".", "1">>

C3_Witness ==
    /\ pc = "toc"
    /\ Levels(content_lines) = <<2, 4, 3>>
    /\ Numbers(chapter_names) = <<<<"1">>, <<"1", ".", "0", ".", "1">>, <<"1", ".", "1">>>>
    /\ Warning(4, <<"x">>, 2) \in Range(stdout)

(***************************************************************************)
(* C4: a header of a level below min_toc_level is no chapter: the step     *)
(* that meets it copies the line to the output as it is and leaves the     *)
(* chapter indexes, the chapter names and what was printed alone, so that  *)
(* the headers after it are numbered as if it were text; it has no entry   *)
(* in the chapter list and none in the TOC.                                *)
(***************************************************************************)
BelowMinimum(line) == RE_HEADER(line).matched /\ LevelOf(line) < min_toc_level

\* the list items of a rendered TOC: its lines between the title and TOC_END
TocItems(rendered) ==
    LET lines == split(rendered, NL)
    IN  SelectSeq(SubSeq(lines, 3, Len(lines) - 1), LAMBDA l : l # <<>>)

\* the innermost call of get_chapter_names is at such a header
AtBelowMinimum ==
    /\ pc = "scan"
    /\ Top.at = "for"
    /\ ~Exhausted
    /\ BelowMinimum(Line)

C4_Passed ==
    Scanned =>
        /\ Len(new_content_lines) = Len(content_lines)
        /\ \A i \in 1..Len(content_lines) :
               BelowMinimum(content_lines[i]) => new_content_lines[i] = content_lines[i]
        /\ Len(chapter_names) = Len(QualifyingAt(content_lines))
        /\ toc_content # <<>> => Len(TocItems(toc_content)) = Len(chapter_names)

C4_BelowMinimum ==
    /\ []C4_Passed
    /\ [][AtBelowMinimum =>
            /\ new_content_lines' = Append(new_content_lines, Line)
            /\ chapter_indexes' = chapter_indexes
            /\ stdout' = stdout
            /\ Len(stack') = Len(stack)
            /\ \A f \in 1..Len(stack) : stack'[f].chapter_names = stack[f].chapter_names
            /\ stack'[Len(stack)].current_chapter_level = Top.current_chapter_level]_vars

C4_Witness ==
    /\ pc = "toc"
    /\ content_lines = <<HeaderLine(2), HeaderLine(1), HeaderLine(3)>>
    /\ new_content_lines[2] = HeaderLine(1)
    /\ Numbers(chapter_names) = <<<<"1">>, <<"1", ".", "1">>>>

(***************************************************************************)
(* Generated TOC blocks in a text.                                         *)
(***************************************************************************)
HasMark(text) == Occurrences(text, TOC_MARK) # {}

\* the TOC_ENDs of text that can close a block opened at b
EndsAfter(text, b) == {e \in Occurrences(text, TOC_END) : e >= b + Len(TOC_BEGIN)}

HasBlock(text) == \E b \in Occurrences(text, TOC_BEGIN) : EndsAfter(text, b) # {}

\* the first block of text: from its first TOC_BEGIN to the next TOC_END
FirstBlock(text) ==
    LET b == Min(Occurrences(text, TOC_BEGIN))
    IN  SubSeq(text, b, Min(EndsAfter(text, b)) + Len(TOC_END) - 1)

\* text with each of its blocks, taken one by one, put back to one mark
RECURSIVE CollapseEach(_)
CollapseEach(text) ==
    LET begins == Occurrences(text, TOC_BEGIN)
        b == Min(begins)
        e == Min(EndsAfter(text, b))
    IN  IF begins = {} \/ EndsAfter(text, b) = {} THEN text
        ELSE SubSeq(text, 1, b - 1) \o TOC_MARK
                 \o CollapseEach(From(text, e + Len(TOC_END)))

\* every TOC_BEGIN of text is closed by a TOC_END before the next TOC_BEGIN,
\* and text has no other TOC_END
WellDelimited(text) ==
    LET begins == Occurrences(text, TOC_BEGIN)
        ends == Occurrences(text, TOC_END)
    IN  /\ Cardinality(begins) = Cardinality(ends)
        /\ \A b \in begins : \E e \in ends :
               e > b /\ \A b2 \in begins : ~(b < b2 /\ b2 < e)

\* how many headers of the file, its generated blocks apart, the TOC takes
HeaderCount(text) == Len(QualifyingAt(split(CollapseEach(text), NL)))

\* this run is one of generate_file_toc, and it wrote the file
Wrote == pc = "exit" /\ status = 0

(***************************************************************************)
(* C5: for a document that holds the mark, after every run the file holds  *)
(* a TOC block between one TOC_BEGIN and one TOC_END with as many list     *)
(* items as the file has headers of level >= min_toc_level, no marker of   *)
(* an earlier block is left over, and from the second run on the block is  *)
(* the one the run before wrote.                                           *)
(***************************************************************************)
C5_TocRoundTrip ==
    (Wrote /\ HasMark(history[1])) =>
        /\ HasBlock(disk)
        /\ WellDelimited(disk)
        /\ Len(TocItems(FirstBlock(disk))) = HeaderCount(disk)
        /\ run >= 2 => FirstBlock(disk) = FirstBlock(history[run])

(***************************************************************************)
(* C6: after a run no mark is left in the file, however many it held:      *)
(* every mark has been replaced by the generated TOC.                      *)
(***************************************************************************)
C6_EveryMarkReplaced == Wrote => ~HasMark(disk)

(***************************************************************************)
(* C7: at the start of a run each generated block of the file is put back  *)
(* to one mark and nothing else is removed: the content the run goes on    *)
(* with is the file with each block, one by one, replaced by a mark, so    *)
(* every line outside the blocks, between two blocks too, is still there.  *)
(***************************************************************************)
C7_EachBlockCollapsed ==
    pc \in {"scan", "toc", "sub", "write"} => content = CollapseEach(disk)

(***************************************************************************)
(* chapter_name_to_md_item on its own: applied to numbered chapter names   *)
(* whose titles hold every character it treats specially.                  *)
(***************************************************************************)
NameChars == {".", "/", "#", "-", "&", " ", "A", "b", "1"}
ItemNumbers == {<<"1">>, <<"1", ".", "2">>, <<"1", ".", "0", ".", "1">>}
\* "1.2 Getting Started & Setup"
ExampleName ==
    <<"1", ".", "2", " ", "G", "e", "t", "t", "i", "n", "g", " ",
      "S", "t", "a", "r", "t", "e", "d", " ", "&", " ", "S", "e", "t", "u", "p">>
ItemNames ==
    {n \o <<" ">> \o t : n \in ItemNumbers, t \in SeqsUpTo(NameChars, MaxNameLen)}
        \cup {ExampleName}

ItemInit ==
    /\ argv = <<Prog>>
    /\ is_file = FALSE
    /\ disk = <<>>
    /\ run = 1
    /\ history = <<>>
    /\ status = -1
    /\ toc_chapter_name = <<>>
    /\ content = <<>>
    /\ content_lines = <<>>
    /\ new_content_lines = <<>>
    /\ \E name \in ItemNames : chapter_names = <<name>>
    /\ toc_content = <<>>
    /\ new_content = <<>>
    /\ chapter_indexes = <<>>
    /\ stack = <<>>
    /\ stdout = <<>>
    /\ opened = <<>>
    /\ pc = "item"

\* lines 179-181: map(chapter_name_to_md_item, chapter_names), for one name
RenderItem ==
    /\ pc = "item"
    /\ toc_content' = chapter_name_to_md_item(chapter_names[1])
    /\ pc' = "item done"
    /\ UNCHANGED <<argv, is_file, disk, run, status, toc_chapter_name, content,
                   content_lines, new_content_lines, chapter_names, new_content,
                   chapter_indexes, stack, stdout, opened, history>>

ItemNext == RenderItem

ItemSpec == ItemInit /\ [][ItemNext]_vars

(***************************************************************************)
(* C8: the list item of a numbered chapter name is a link whose text is    *)
(* the name unchanged and whose anchor is the name without its '.', '/',   *)
(* '#', '-' and '&', its spaces turned into '-', in lower case;            *)
(* "1.2 Getting Started & Setup" has the anchor                            *)
(* "12-getting-started--setup".                                            *)
(***************************************************************************)
Anchor(name) ==
    LET kept == SelectSeq(name, LAMBDA c : c \notin {".", "/", "#", "-", "&"})
    IN  [i \in 1..Len(kept) |-> IF kept[i] = " " THEN "-" ELSE lower_char(kept[i])]

\* a link with this text and this anchor, as a list item indented by k units
Link(k, text, anchor) ==
    repeat(<<" ", " ">>, k) \o <<"-", " ", "[">> \o text \o <<"]", "(", "#">>
        \o anchor \o <<")">>

\* "12-getting-started--setup"
ExampleAnchor ==
    <<"1", "2", "-", "g", "e", "t", "t", "i", "n", "g", "-",
      "s", "t", "a", "r", "t", "e", "d", "-", "-", "s", "e", "t", "u", "p">>

C8_Link ==
    pc = "item done" =>
        LET name == chapter_names[1]
        IN  /\ \E k \in 0..Len(name) : toc_content = Link(k, name, Anchor(name))
            /\ name = ExampleName =>
                   \E k \in 0..Len(name) : toc_content = Link(k, ExampleName, ExampleAnchor)

C8_Witness ==
    /\ pc = "item done"
    /\ chapter_names = <<ExampleName>>
    /\ toc_content = Link(1, ExampleName, ExampleAnchor)

(***************************************************************************)
(* C9: the TOC has one list item per header of level >= min_toc_level and  *)
(* nothing else between its title and TOC_END; the items are in the order  *)
(* of the headers of the rewritten document, each linking to its header by *)
(* its numbered name; the item of a header of level L is indented by two   *)
(* spaces per '.' of its number, which is L - min_toc_level times.         *)
(***************************************************************************)
C9_TocItems ==
    toc_content # <<>> =>
        LET items == TocItems(toc_content)
            levels == Levels(content_lines)
            at == QualifyingAt(new_content_lines)
        IN  /\ Len(items) = Len(levels)
            /\ Len(at) = Len(levels)
            /\ Len(split(toc_content, NL)) = 3 + Max({1, Len(levels)})
            /\ \A j \in 1..Len(levels) :
                   LET name == RE_HEADER(new_content_lines[at[j]]).group2
                   IN  /\ str_count(NumberOf(name), ".") = levels[j] - min_toc_level
                       /\ items[j] = Link(levels[j] - min_toc_level, name, Anchor(name))

C9_Witness ==
    /\ pc = "sub"
    /\ content_lines = <<HeaderLine(2), HeaderLine(3), HeaderLine(4)>>
    /\ TocItems(toc_content) =
           <<Link(0, <<"1", " ", "x">>, <<"1", "-", "x">>),
             Link(1, <<"1", ".", "1", " ", "x">>, <<"1", "1", "-", "x">>),
             Link(2, <<"1", ".", "1", ".", "1", " ", "x">>, <<"1", "1", "1", "-", "x">>)>>

(***************************************************************************)
(* C10: a document with no header of level >= min_toc_level, the empty     *)
(* document too, is processed without any error: the run ends by writing   *)
(* the file, the chapter list is empty, and the generated TOC block holds  *)
(* its title line and no list item.                                        *)
(***************************************************************************)
\* this run is one of generate_file_toc, it has ended, and the document it
\* read has no header for the TOC
EndedWithoutHeaders ==
    /\ Ended
    /\ opened # <<>>
    /\ QualifyingAt(content_lines) = <<>>

TitleOnlyToc(title) ==
    TOC_BEGIN \o <<NL, "#", "#", " ">> \o title \o <<NL, NL>> \o TOC_END

C10_NoHeaders ==
    EndedWithoutHeaders =>
        /\ Wrote
        /\ chapter_names = <<>>
        /\ toc_content = TitleOnlyToc(toc_chapter_name)

(***************************************************************************)
(* C11: in a run the file is opened for writing at most once, and only     *)
(* when it has been read whole and the content has been collapsed, split,  *)
(* numbered, the TOC rendered and the marks substituted: what is written   *)
(* is the outcome of all of these.  Until then, and for good in a run that *)
(* an exception ends, at the read or at any later step, the file is as the *)
(* run found it.                                                           *)
(***************************************************************************)
\* how often the file has been opened in this mode in this run
OpenedIn(mode) == Cardinality({k \in 1..Len(opened) : opened[k] = mode})

\* what the steps of generate_file_toc make of the file the run found
Transformed ==
    /\ content = RE_TOC_FINISHED_sub(history[run])
    /\ content_lines = split(content, NL)
    /\ Len(new_content_lines) = Len(content_lines)
    /\ Len(chapter_names) = Len(QualifyingAt(content_lines))
    /\ toc_content = toc(toc_chapter_name, chapter_names)
    /\ new_content = RE_TOC_INIT_sub(toc_content, join(<<NL>>, new_content_lines),
                                     RE_MULTILINE).text

C11_WriteLast ==
    /\ OpenedIn("w") <= 1
    /\ OpenedIn("w") = 1 =>
           /\ opened = <<"r", "w">>
           /\ pc = "exit"
           /\ Transformed
           /\ disk = new_content
    /\ OpenedIn("w") = 0 => disk = history[run]
    /\ pc = "raised" => OpenedIn("w") = 0

\* a run has read the file, gone through every step and written another content
C11_Witness ==
    /\ opened = <<"r", "w">>
    /\ Transformed
    /\ disk = new_content
    /\ disk # history[run]

(***************************************************************************)
(* C12: when argv has no file argument, or the argument names no existing  *)
(* file, main prints the usage line and returns a status other than 0, and *)
(* the file is neither opened nor changed; in every other case (of a file  *)
(* that can be opened) main returns 0, the file read, transformed and      *)
(* rewritten.                                                              *)
(***************************************************************************)
UsageError == Len(argv) < 2 \/ ~is_file

C12_Main ==
    Ended =>
        IF UsageError
        THEN /\ pc = "exit"
             /\ status # 0
             /\ stdout = <<Usage>>
             /\ opened = <<>>
             /\ disk = history[run]
        ELSE argv[2] # Locked =>
                 /\ pc = "exit"
                 /\ status = 0
                 /\ opened = <<"r", "w">>
                 /\ Transformed
                 /\ disk = new_content

(***************************************************************************)
(* C13: while get_chapter_names scans and after it, the keys of            *)
(* chapter_indexes are exactly min_toc_level..L, L the level of the last   *)
(* header numbered so far, and the '.'-join of its counters in ascending   *)
(* key order is the number that header got; before any header is numbered  *)
(* chapter_indexes is {min_toc_level: 0}.                                  *)
(***************************************************************************)
\* the lines of the document get_chapter_names has gone through so far
Processed == SubSeq(content_lines, 1, Len(new_content_lines))

\* the header numbered last, as it stands in the output
LastNumbered ==
    LET at == QualifyingAt(new_content_lines)
    IN  new_content_lines[at[Len(at)]]

C13_ContiguousKeys ==
    (pc = "scan" \/ Scanned) =>
        LET levels == Levels(Processed)
            last == LastNumbered
        IN  IF levels = <<>>
            THEN chapter_indexes = (min_toc_level :> 0)
            ELSE /\ DOMAIN chapter_indexes = min_toc_level..LevelOf(last)
                 /\ LevelOf(last) = levels[Len(levels)]
                 /\ dotted_index(chapter_indexes) = NumberOf(RE_HEADER(last).group2)

\* after "## x", "#### x" the keys are 2..4, a level opened on the way
C13_Witness ==
    /\ pc = "scan"
    /\ Processed = <<HeaderLine(2), HeaderLine(4)>>
    /\ chapter_indexes = (2 :> 1) @@ (3 :> 0) @@ (4 :> 1)
    /\ NumberOf(RE_HEADER(LastNumbered).group2) = <<"1", ".", "0", ".", "1">>

(***************************************************************************)
(* C14: get_chapter_names, called at offset 0 with an output buffer,       *)
(* appends one entry per input line, in order, whichever nested call does  *)
(* it: while it scans, the buffer has one entry for each line gone         *)
(* through and the innermost call is at the next line; when it has         *)
(* returned, entry i is input line i, unless line i is a header of level   *)
(* >= min_toc_level, and then it is '#' times the level, a space and the   *)
(* numbered chapter name: the header's dotted index, a space and its name  *)
(* without the number it had.                                              *)
(***************************************************************************)
\* the entry the output buffer is to hold for the j-th header of the document,
\* the headers at these lines and of these levels
NumberedEntry(at, levels, j) ==
    Hashes(levels[j]) \o <<" ">> \o Dotted(levels, j) \o <<" ">>
        \o strip_number(RE_HEADER(content_lines[at[j]]).group2)

C14_OneEntryPerLine ==
    LET at == QualifyingAt(content_lines)
        levels == [j \in 1..Len(at) |-> LevelOf(content_lines[at[j]])]
        done == Len(new_content_lines)
    IN  /\ (pc = "scan" /\ Top.at = "for") =>
               /\ LineIndex = done
               /\ LineIndex <= Len(content_lines)
        /\ (pc = "scan" \/ Scanned) =>
               /\ \A i \in 1..done :
                      i \notin Range(at) => new_content_lines[i] = content_lines[i]
               /\ \A j \in 1..Len(at) :
                      at[j] <= done =>
                          new_content_lines[at[j]] = NumberedEntry(at, levels, j)
        /\ Scanned =>
               /\ done = Len(content_lines)
               /\ Len(chapter_names) = Len(at)
               /\ \A j \in 1..Len(at) :
                      new_content_lines[at[j]] =
                          Hashes(levels[j]) \o <<" ">> \o chapter_names[j]

\* a text line, a header of level 1 and a header that carried a number
C14_Witness ==
    /\ Scanned
    /\ content_lines = <<TextLine, HeaderLine(1), StaleHeaderLine>>
    /\ new_content_lines =
           <<TextLine, HeaderLine(1), <<"#", "#", " ", "1", " ", "x">>>>

(***************************************************************************)
(* get_chapter_names on its own, called as generate_file_toc calls it      *)
(* (offset 0, no chapter_indexes, an output buffer), and called again on   *)
(* the lines it produced.  Its documents are those of a few lines of any   *)
(* kind, the outlines, and one outline as long as the recursion limit.     *)
(***************************************************************************)
\* a header whose name is a number and nothing else
NumberOnlyHeaderLine == <<"#", "#", " ", "7">>
\* a header with two numbers, two spaces before its name, a space after it
TwoNumbersHeaderLine == <<"#", "#", "#", " ", " ", "1", " ", "2", ".", " ", "x", " ">>
PassLineKinds ==
    {TextLine, HeaderLine(1), HeaderLine(2), HeaderLine(3), StaleHeaderLine,
     NumberOnlyHeaderLine, TwoNumbersHeaderLine}
DeepOutline == [k \in 1..RecursionLimit |-> HeaderLine(min_toc_level)]
PassDocuments ==
    SeqsUpTo(PassLineKinds, MaxLines) \cup SeqsUpTo(OutlineKinds, MaxOutline)
        \cup {DeepOutline}

PassInit ==
    /\ argv = <<Prog, Path>>
    /\ is_file = TRUE
    /\ disk = <<>>
    /\ run = 1
    /\ history = <<>>
    /\ status = -1
    /\ toc_chapter_name = <<>>
    /\ content = <<>>
    /\ content_lines \in PassDocuments
    /\ new_content_lines = <<>>
    /\ chapter_names = <<>>
    /\ toc_content = <<>>
    /\ new_content = <<>>
    /\ chapter_indexes = (min_toc_level :> 0)
    /\ stack = <<Call(0, 0)>>
    /\ stdout = <<>>
    /\ opened = <<>>
    /\ pc = "scan"

\* get_chapter_names is called again, on the lines it appended to its buffer;
\* history keeps what each call so far was given and what it returned
PassAgain ==
    /\ pc = "toc"
    /\ run < MaxRuns
    /\ run' = run + 1
    /\ history' = Append(history, [content_lines |-> content_lines,
                                    new_content_lines |-> new_content_lines,
                                    chapter_names |-> chapter_names])
    /\ content_lines' = new_content_lines
    /\ new_content_lines' = <<>>
    /\ chapter_names' = <<>>
    /\ chapter_indexes' = (min_toc_level :> 0)
    /\ stack' = <<Call(0, 0)>>
    /\ stdout' = <<>>
    /\ pc' = "scan"
    /\ UNCHANGED <<argv, is_file, disk, status, toc_chapter_name, content,
                   toc_content, new_content, opened>>

PassNext ==
    \/ PassLine
    \/ NumberChapter
    \/ LoopEnd
    \/ Return
    \/ PassAgain

PassSpec == PassInit /\ [][PassNext]_vars

(***************************************************************************)
(* C15: the numbering alone is idempotent: get_chapter_names applied, with *)
(* an output buffer and no chapter_indexes, to the lines it produced       *)
(* appends the same lines and returns the same chapter names; the number   *)
(* the first pass wrote is stripped from the name before the second pass   *)
(* writes its own.                                                         *)
(***************************************************************************)
\* the names of the headers of these lines, without their numbers
StrippedNames(lines) ==
    LET at == QualifyingAt(lines)
    IN  [j \in 1..Len(at) |-> strip_number(RE_HEADER(lines[at[j]]).group2)]

C15_PassIdempotent ==
    (pc = "toc" /\ run >= 2) =>
        /\ new_content_lines = history[run - 1].new_content_lines
        /\ chapter_names = history[run - 1].chapter_names
        /\ new_content_lines = content_lines
        /\ StrippedNames(content_lines) = StrippedNames(history[1].content_lines)

\* the second pass over what "## 7.1 x", "### x" became
C15_Witness ==
    /\ pc = "toc"
    /\ run = 2
    /\ history[1].content_lines = <<StaleHeaderLine, HeaderLine(3)>>
    /\ content_lines = <<<<"#", "#", " ", "1", " ", "x">>,
                         <<"#", "#", "#", " ", "1", ".", "1", " ", "x">>>>
    /\ new_content_lines = content_lines
    /\ chapter_names = <<<<"1", " ", "x">>, <<"1", ".", "1", " ", "x">>>>

(***************************************************************************)
(* C16: a nested call of get_chapter_names that was entered with           *)
(* current_chapter_level = L and meets a header of level >= min_toc_level  *)
(* and <= L does not number it: its step is a return (the stack gets       *)
(* shorter, nothing is appended to the output, chapter_indexes stays) and  *)
(* the enclosing call goes on scanning at that very line.                  *)
(***************************************************************************)
\* the innermost call is a nested one and stands at a header of a level that
\* is not below the level the call was entered with
NestedAtShallower ==
    /\ pc = "scan"
    /\ Len(stack) >= 2
    /\ Top.at = "for"
    /\ ~Exhausted
    /\ Qualifies(Line)
    /\ LevelOf(Line) <= Top.current_chapter_level

OneHeaderPerCall ==
    pc = "scan" =>
        /\ \A k \in 1..(Len(stack) - 1) : stack[k].at = "break"
        /\ \A k \in 1..Len(stack) :
               stack[k].at = "for" => stack[k].chapter_names = <<>>
        /\ Top.at = "for" => Len(stack) = Len(QualifyingAt(new_content_lines)) + 1

ScanStep(map, level) ==
    LET kept == [k \in {x \in DOMAIN map : x <= level} |-> map[k]]
        filled == [k \in min_toc_level..level |->
                      IF k \in DOMAIN kept THEN kept[k] ELSE 0]
    IN  [filled EXCEPT ![level] = @ + 1]

\* the map of the scan after the first i lines
RECURSIVE ScanMap(_, _)
ScanMap(lines, i) ==
    IF i = 0 THEN <<>>
    ELSE IF Qualifies(lines[i]) THEN ScanStep(ScanMap(lines, i - 1), LevelOf(lines[i]))
    ELSE ScanMap(lines, i - 1)

\* the name the scan gives the header that is line i
ScanName(lines, i) ==
    LET map == ScanMap(lines, i)
    IN  join(<<".">>, [n \in 1..(LevelOf(lines[i]) - min_toc_level + 1) |->
                          str(map[min_toc_level + n - 1])])
            \o <<" ">> \o strip_number(RE_HEADER(lines[i]).group2)

ScanNames(lines) ==
    LET at == QualifyingAt(lines)
    IN  [j \in 1..Len(at) |-> ScanName(lines, at[j])]

ScanLines(lines) ==
    [i \in 1..Len(lines) |->
        IF Qualifies(lines[i])
        THEN Hashes(LevelOf(lines[i])) \o <<" ">> \o ScanName(lines, i)
        ELSE lines[i]]

\* the first call of get_chapter_names on the document has ended
PassEnded == run = 1 /\ pc \in {"toc", "raised"}

C17_IterativeScan ==
    PassEnded =>
        /\ pc = "toc"
        /\ chapter_names = ScanNames(content_lines)
        /\ new_content_lines = ScanLines(content_lines)

(***************************************************************************)
(* C18: the dotted indexes of the headers numbered in a run, read as       *)
(* sequences of integers, are strictly increasing in the order of the      *)
(* document, by the first component that differs, a proper prefix being    *)
(* the smaller: no two headers get the same index, whether or not levels   *)
(* are skipped.                                                            *)
(***************************************************************************)
\* the integer these digits write; no counter exceeds the number of lines
IntOf(digits) == CHOOSE n \in 0..Len(content_lines) : str(n) = digits

\* the components of a dotted index
Components(number) ==
    LET parts == split(number, ".")
    IN  [k \in 1..Len(parts) |-> IntOf(parts[k])]

\* the dotted indexes of the headers numbered so far, in order
IndexesGiven ==
    LET at == QualifyingAt(new_content_lines)
    IN  [j \in 1..Len(at) |->
            Components(NumberOf(RE_HEADER(new_content_lines[at[j]]).group2))]

LexLess(a, b) ==
    \E k \in 1..(Len(a) + 1) :
        /\ k <= Len(b)
        /\ \A n \in 1..(k - 1) : a[n] = b[n]
        /\ k <= Len(a) => a[k] < b[k]

C18_StrictlyIncreasing ==
    (pc = "scan" \/ Scanned) =>
        LET given == IndexesGiven
        IN  \A i, j \in 1..Len(given) : i < j => LexLess(given[i], given[j])

\* levels 3, 2, 4, 3, 2: a level is skipped, levels are closed
C18_Witness ==
    /\ Scanned
    /\ Levels(content_lines) = <<3, 2, 4, 3, 2>>
    /\ IndexesGiven = <<<<0, 1>>, <<1>>, <<1, 0, 1>>, <<1, 1>>, <<2>>>>

(***************************************************************************)
(* C19: the last component of every dotted index is >= 1, and a component  *)
(* that is 0 stands for a level that a header skipped with a warning: when *)
(* a header has got an index with a 0 for level k, a warning has been      *)
(* printed for a header of a level below k (a greater number) that was     *)
(* expected at level k or above it.                                        *)
(***************************************************************************)
\* the warnings printed so far
Warnings == SelectSeq(stdout, LAMBDA line : Len(line) = 4 /\ line[1] = "WARN")

\* a warning was printed for a header that skipped level k
WarnedSkip(k) ==
    \E n \in 1..Len(Warnings) : Warnings[n][4] <= k /\ k < Warnings[n][2]

C19_ZeroOnlyWithWarning ==
    (pc = "scan" \/ Scanned) =>
        \A j \in 1..Len(IndexesGiven) :
            LET index == IndexesGiven[j]
            IN  /\ index[Len(index)] >= 1
                /\ \A n \in 1..Len(index) :
                       index[n] = 0 => WarnedSkip(min_toc_level + n - 1)

====
